---- MODULE Spec2Model ----
(***************************************************************************)
(* Meal-command processing pipeline of CaloriesTracker.                    *)
(*                                                                         *)
(* ProcessMealService.process(text, userId) is an async method: every      *)
(* await (the parser call, each database call, the nutrition LLM call) is  *)
(* a suspension point at which other requests may run.  Each action below  *)
(* is the code that runs from the completion of one awaited call up to the *)
(* next await (or the return).  The products and entries tables are the    *)
(* only state shared between requests.                                     *)
(*                                                                         *)
(* Spec runs the requests one after the other, SpecConc lets them overlap. *)
(* The parser, the nutrition LLM and the database are the environment:     *)
(* their answers and failures are chosen nondeterministically.             *)
(***************************************************************************)
EXTENDS Integers, Sequences, FiniteSets, TLC

\* ---------------------------------------------------------------- bounds
MaxReqs == 2
MaxItems == 3
MaxFaults == 1
MaxEntries == 3

Reqs == 1..MaxReqs

\* ---------------------------------------------------------------- inputs
Texts == {"chicken 200g and unknownproduct 50g", " 2 eggs "}
\* The text request r submits (body.text, as typed).
TextOf(r) == IF r % 2 = 1 THEN "chicken 200g and unknownproduct 50g" ELSE " 2 eggs "
\* String.prototype.trim() on the texts the model uses.
Trim(t) == IF t = " 2 eggs " THEN "2 eggs" ELSE t
\* t.length
Length(t) ==
  CASE t = "chicken 200g and unknownproduct 50g" -> 35
    [] t = " 2 eggs " -> 8
    [] t = "2 eggs" -> 6
    [] OTHER -> 0
\* .max(1000) of ProcessMealCommandSchema
MaxTextLength == 1000
Users == {"u1", "u2"}
\* The caller that issues request r.
UserOf(r) == IF r % 2 = 1 THEN "u1" ELSE "u2"
\* The user id the POST handler hands to process: a fixed id, whoever is signed in.
DEFAULT_USER_ID == "default-user"
\* Request bodies: a valid command, a command whose text is blank after
\* trimming, and a body that is not JSON.
BodyKinds == {"valid", "blank", "malformed"}
RawNames == {"chicken", " Chicken", "unknownproduct"}
Quantities == {0, 50, 200}

\* String.prototype.toLowerCase().trim() on the names the model uses.
Normalize(name) ==
  CASE name = " Chicken" -> "chicken"
    [] name = "chicken" -> "chicken"
    [] name = "unknownproduct" -> "unknownproduct"

\* Values the nutrition LLM may answer (NutritionDataSchema accepts any number).
NutritionResponses ==
  { [nutritionBasis |-> "unit", calories |-> 70, protein |-> 6, fat |-> 5, carbs |-> 1],
    [nutritionBasis |-> "100ml", calories |-> 42, protein |-> -1, fat |-> 1, carbs |-> 5] }

\* A thrown value: an Error with a message, or any other value.
ErrorValue(msg) == [isError |-> TRUE, message |-> msg]
NonErrorValue == [isError |-> FALSE, message |-> <<>>]
LLMFailures == { ErrorValue(<<"LLM request failed">>), NonErrorValue }

\* error instanceof Error ? error.message : "Unknown error"
ErrMessage(e) == IF e.isError THEN e.message ELSE <<"Unknown error">>

NoProduct == [id |-> 0]
NoNutrition == [nutritionBasis |-> "none"]
Today == "today"

\* ---------------------------------------------------------------- state
VARIABLES
  mode,              \* "seq": requests run one after the other; "conc": they overlap
  pc,                \* per request: the await it is suspended at
  text, userId,      \* arguments of process
  parsedItems,       \* const parsedItems
  existingProducts,  \* const existingProducts (Map name -> row)
  idx,               \* position of the for..of loop (1-based)
  product,           \* row held across the await of insertEntry
  nutrition,         \* const nutrition in fetchOrCreateProduct
  successes, errors, \* the result arrays
  products, entries, \* database tables
  faults,            \* history: the failures the environment has injected so far
  parsedTotal,       \* history: number of items the parser has returned so far
  calls,             \* history: number of calls issued per request and kind
  entryOrigin,       \* history: entryOrigin[id] = <<request, item>> that inserted the row
  body,              \* per request: the kind of body it carries ("none" before it arrives)
  status,            \* per request: the HTTP status answered (0 while unanswered)
  apiKey,            \* OPENROUTER_API_KEY of the environment: "set" or "missing"
  service,           \* "none" until new OpenRouterService() has run
  ccPc,              \* the await chatCompletion is suspended at
  params,            \* argument of chatCompletion
  timeoutId,         \* the timer of _sendRequest: "unset", "armed", "cleared", "fired"
  requests,          \* history: outbound HTTP requests issued by the current invocation
  upstream,          \* what the upstream answers to the current invocation, if it answers
  result,            \* the value chatCompletion resolved with, or the error it threw
  goals,             \* database table user_goals
  api,               \* the middleware / handler / service call in flight, and its await
  locals,            \* context.locals of the HTTP request in flight
  out                \* what the last finished call returned, threw or answered

vars == <<mode, pc, text, userId, parsedItems, existingProducts, idx, product,
          nutrition, successes, errors, products, entries, faults, parsedTotal, calls,
          entryOrigin, body, status, apiKey, service, ccPc, params, timeoutId, requests,
          upstream, result, goals, api, locals, out>>

\* The state of the data services, of the middleware and of the user_goals table.
apiVars == <<goals, api, locals, out>>
\* The state of OpenRouterService and of its environment.
clientVars == <<apiKey, service, ccPc, params, timeoutId, requests, upstream, result>>
\* The state of the HTTP layer, which process itself never touches.
httpVars == <<body, status>>
\* The state of the meal pipeline and of its HTTP layer.
pipelineVars == <<mode, pc, text, userId, parsedItems, existingProducts, idx, product,
                  nutrition, successes, errors, products, entries, faults, parsedTotal, calls,
                  entryOrigin, body, status>>

NoCalls == [parse |-> 0, batch |-> 0, select |-> 0, llm |-> 0,
            insertProduct |-> 0, insertEntry |-> 0]

Bump(r, kind) == [calls EXCEPT ![r][kind] = @ + 1]

SeedProducts ==
  { [id |-> 1, name |-> "chicken", nutrition_basis |-> "100g",
     calories |-> 165, protein |-> 31, fat |-> 4, carbs |-> 0] }

NoApi == [op |-> "none", pc |-> "idle"]
NoLocals == [supabase |-> FALSE, user |-> "none"]
NoOut == [op |-> "none", kind |-> "none"]

\* No middleware, handler or data service call is running.
ApiIdle ==
  /\ api = NoApi
  /\ locals = NoLocals
  /\ out = NoOut

\* No request is inside process.
InitLocals ==
  /\ pc = [r \in Reqs |-> "idle"]
  /\ text = [r \in Reqs |-> ""]
  /\ userId = [r \in Reqs |-> ""]
  /\ parsedItems = [r \in Reqs |-> <<>>]
  /\ existingProducts = [r \in Reqs |-> <<>>]
  /\ idx = [r \in Reqs |-> 0]
  /\ product = [r \in Reqs |-> NoProduct]
  /\ nutrition = [r \in Reqs |-> NoNutrition]
  /\ successes = [r \in Reqs |-> <<>>]
  /\ errors = [r \in Reqs |-> <<>>]
  /\ faults = {}
  /\ parsedTotal = 0
  /\ calls = [r \in Reqs |-> NoCalls]
  /\ entryOrigin = <<>>
  /\ body = [r \in Reqs |-> "none"]
  /\ status = [r \in Reqs |-> 0]

InitCommon ==
  /\ InitLocals
  /\ products = SeedProducts
  /\ entries = {}
  /\ goals = {}
  /\ ApiIdle

NoParams == [userMessage |-> "none"]
NoUpstream == [status |-> 0]
NoResult == [class |-> "none"]

\* No OpenRouterService has been constructed and no chatCompletion is running.
ClientIdle ==
  /\ service = "none"
  /\ ccPc = "idle"
  /\ params = NoParams
  /\ timeoutId = "unset"
  /\ requests = 0
  /\ upstream = NoUpstream
  /\ result = NoResult

Init == mode = "seq" /\ InitCommon /\ apiKey = "set" /\ ClientIdle
InitConc == mode = "conc" /\ InitCommon /\ apiKey = "set" /\ ClientIdle
\* The client on its own, in an environment with or without the credential.
InitClient == mode = "seq" /\ InitCommon /\ apiKey \in {"set", "missing"} /\ ClientIdle

\* ---------------------------------------------------------------- helpers
\* `${item.name} ${item.quantity}`
ItemText(item) == <<item.name, " ", ToString(item.quantity)>>

\* Largest parse result still within the bounds; overlapping requests share
\* the item budget evenly.
ParseBudget ==
  LET left == MaxItems - parsedTotal
      share == MaxItems \div MaxReqs
  IN IF mode = "conc" /\ left > share THEN share ELSE left

ItemSeqs(n) == UNION { [1..k -> [name : RawNames, quantity : Quantities]] : k \in 0..n }

\* supabase .from("products").select("*").in("name", names)
SelectIn(names) == { p \in products : p.name \in names }

\* productMap built by batchLookupProducts: key product.name.toLowerCase().trim()
ProductMap(rows) ==
  [n \in { Normalize(p.name) : p \in rows } |-> CHOOSE p \in rows : Normalize(p.name) = n]

\* Control state in which the per-item loop suspends or ends.
Ctl(p, i, prod, errs) == [pc |-> p, idx |-> i, product |-> prod, errors |-> errs]

QuantityError(item, i) ==
  [text |-> ItemText(item), message |-> <<"Quantity must be greater than zero">>, item |-> i]

ItemError(item, i, e) ==
  [text |-> ItemText(item),
   message |-> <<"Failed to create entry: ">> \o ErrMessage(e), item |-> i]

RECURSIVE LoopFrom(_, _, _, _)
RECURSIVE ValidateQuantity(_, _, _, _, _)

\* Variant of LoopFrom that checks the quantity before it resolves the product.
LoopFrom_QuantityFirst(items, existing, i, errs) ==
  IF i > Len(items)
  THEN Ctl("done", i, NoProduct, errs)
  ELSE IF items[i].quantity <= 0
  THEN LoopFrom(items, existing, i + 1, Append(errs, QuantityError(items[i], i)))
  ELSE LET normalizedName == Normalize(items[i].name)
       IN IF normalizedName \in DOMAIN existing
          THEN ValidateQuantity(items, existing, i, existing[normalizedName], errs)
          ELSE Ctl("fetch", i, NoProduct, errs)

\* for (const item of parsedItems): runs item i up to its first await.
LoopFrom(items, existing, i, errs) ==
  IF i > Len(items)
  THEN Ctl("done", i, NoProduct, errs)
  ELSE LET normalizedName == Normalize(items[i].name)
       IN IF normalizedName \in DOMAIN existing
          THEN ValidateQuantity(items, existing, i, existing[normalizedName], errs)
          ELSE Ctl("fetch", i, NoProduct, errs)

\* Variant of ValidateQuantity that leaves the loop at the first bad quantity.
ValidateQuantity_Break(items, existing, i, prod, errs) ==
  IF items[i].quantity <= 0
  THEN Ctl("done", i, NoProduct, Append(errs, QuantityError(items[i], i)))
  ELSE Ctl("insertEntry", i, prod, errs)

\* if (item.quantity <= 0) { errors.push(...); continue; } else insertEntry(...)
ValidateQuantity(items, existing, i, prod, errs) ==
  IF items[i].quantity <= 0
  THEN LoopFrom(items, existing, i + 1, Append(errs, QuantityError(items[i], i)))
  ELSE Ctl("insertEntry", i, prod, errs)

\* Variant of ItemCatch that gives up the remaining items after recording the error.
ItemCatch_Abort(items, existing, i, e, errs) ==
  Ctl("done", i, NoProduct, Append(errs, ItemError(items[i], i, e)))

\* catch (error) of the per-item try: record the item's error, go on with the next item.
ItemCatch(items, existing, i, e, errs) ==
  LoopFrom(items, existing, i + 1, Append(errs, ItemError(items[i], i, e)))

\* catch (error) around parseText
ParseCatch(txt, e, errs) ==
  Ctl("done", 0, NoProduct,
      Append(errs, [text |-> <<txt>>,
                    message |-> <<"Failed to parse meal description: ">> \o ErrMessage(e),
                    item |-> 0]))

\* Variant of EmptyParse that returns without reporting anything.
EmptyParse_Silent(txt, errs) == Ctl("done", 0, NoProduct, errs)

\* if (parsedItems.length === 0)
EmptyParse(txt, errs) ==
  Ctl("done", 0, NoProduct,
      Append(errs, [text |-> <<txt>>,
                    message |-> <<"No recognizable meal items found in the input">>,
                    item |-> 0]))

\* Variant of BatchCatch that lets the error escape from process.
BatchCatch_Rethrow(txt, e, errs) == Ctl("rejected", 0, NoProduct, errs)

\* catch (error) around batchLookupProducts
BatchCatch(txt, e, errs) ==
  Ctl("done", 0, NoProduct,
      Append(errs, [text |-> <<txt>>,
                    message |-> <<"Failed to lookup products: ">> \o ErrMessage(e),
                    item |-> 0]))

\* The call issued when the loop suspends in control state c.
CallOf(c) == CASE c.pc = "fetch" -> "select"
               [] c.pc = "insertEntry" -> "insertEntry"
               [] OTHER -> "none"

\* Request r continues in control state c with result array succ.
Resume(r, c, succ) ==
  /\ pc' = [pc EXCEPT ![r] = c.pc]
  /\ idx' = [idx EXCEPT ![r] = c.idx]
  /\ product' = [product EXCEPT ![r] = c.product]
  /\ errors' = [errors EXCEPT ![r] = c.errors]
  /\ successes' = [successes EXCEPT ![r] = succ]
  /\ nutrition' = [nutrition EXCEPT ![r] = NoNutrition]
  /\ calls' = IF CallOf(c) = "none" THEN calls ELSE Bump(r, CallOf(c))

\* A nutrition answer the products table accepts.
NonNegative(n) == n.calories >= 0 /\ n.protein >= 0 /\ n.fat >= 0 /\ n.carbs >= 0

\* The environment makes the call of request r at the given stage fail
\* (or, at stage "nutrition", answer with a profile the table rejects).
Fault(r, stage, i) ==
  /\ Cardinality(faults) < MaxFaults
  /\ faults' = faults \cup {[req |-> r, stage |-> stage, item |-> i]}

\* ---------------------------------------------------------------- actions
\* ProcessMealCommandSchema.safeParse(body).success: the text, trimmed, has
\* between 1 and 1000 characters.
Validates(kind) == kind = "valid"
\* validationResult.data.text for the valid body of request r.
ValidatedText(r) == Trim(TextOf(r))

\* POST: the body is read and validated, then process(body.text, DEFAULT_USER_ID)
\* is called; it suspends at await this.parseText(text).
Process(r) ==
  /\ pc[r] = "idle"
  /\ \A q \in 1..(r - 1) : pc[q] # "idle"
  /\ mode = "seq" => \A q \in Reqs : pc[q] \in {"idle", "returned"}
  /\ parsedTotal < MaxItems
  /\ text' = [text EXCEPT ![r] = TextOf(r)]
  /\ \E kind \in BodyKinds : Validates(kind) /\ body' = [body EXCEPT ![r] = kind]
  /\ userId' = [userId EXCEPT ![r] = DEFAULT_USER_ID]
  /\ pc' = [pc EXCEPT ![r] = "parse"]
  /\ calls' = Bump(r, "parse")
  /\ UNCHANGED <<parsedTotal, mode, faults, parsedItems, existingProducts, idx, product, nutrition,
                 successes, errors, products, entries, entryOrigin, status>>
  /\ UNCHANGED clientVars
  /\ UNCHANGED apiVars

\* POST answers without calling process: 400 when the body fails validation,
\* 500 (the handler's catch) when request.json() throws.
PostRejects(r) ==
  /\ pc[r] = "idle"
  /\ \A q \in 1..(r - 1) : pc[q] # "idle"
  /\ mode = "seq" => \A q \in Reqs : pc[q] \in {"idle", "returned"}
  /\ \E kind \in BodyKinds :
       /\ ~Validates(kind)
       /\ body' = [body EXCEPT ![r] = kind]
       /\ status' = [status EXCEPT ![r] = IF kind = "malformed" THEN 500 ELSE 400]
  /\ pc' = [pc EXCEPT ![r] = "answered"]
  /\ UNCHANGED <<mode, text, userId, parsedItems, existingProducts, idx, product, nutrition,
                 successes, errors, products, entries, faults, parsedTotal, calls, entryOrigin>>
  /\ UNCHANGED clientVars
  /\ UNCHANGED apiVars

\* parseText resolves: names are lower-cased and trimmed by the parser.
ParseReturns(r) ==
  /\ pc[r] = "parse"
  /\ \E raw \in ItemSeqs(ParseBudget) :
       LET items == [k \in 1..Len(raw) |->
                       [name |-> Normalize(raw[k].name), quantity |-> raw[k].quantity]]
       IN IF Len(items) = 0
          THEN /\ Resume(r, EmptyParse(text[r], errors[r]), successes[r])
               /\ UNCHANGED <<parsedItems, parsedTotal>>
          ELSE /\ parsedItems' = [parsedItems EXCEPT ![r] = items]
               /\ parsedTotal' = parsedTotal + Len(items)
               /\ pc' = [pc EXCEPT ![r] = "batch"]
               /\ calls' = Bump(r, "batch")
               /\ UNCHANGED <<idx, product, errors, successes, nutrition>>
  /\ UNCHANGED <<mode, faults, text, userId, existingProducts, products, entries, entryOrigin>>

\* parseText rejects.
ParseFails(r) ==
  /\ pc[r] = "parse"
  /\ Fault(r, "parse", 0)
  /\ \E e \in LLMFailures : Resume(r, ParseCatch(text[r], e, errors[r]), successes[r])
  /\ UNCHANGED <<parsedTotal, mode, text, userId, parsedItems, existingProducts, products, entries,
                 entryOrigin>>

\* Variant of BatchReturns that looks up the first parsed name only.
BatchReturns_FirstOnly(r) ==
  /\ pc[r] = "batch"
  /\ LET found == ProductMap(SelectIn({ Normalize(parsedItems[r][1].name) }))
     IN /\ existingProducts' = [existingProducts EXCEPT ![r] = found]
        /\ Resume(r, LoopFrom(parsedItems[r], found, 1, errors[r]), successes[r])
  /\ UNCHANGED <<parsedTotal, mode, faults, text, userId, parsedItems, products, entries, entryOrigin>>

\* batchLookupProducts resolves with the rows found; the loop starts.
BatchReturns(r) ==
  /\ pc[r] = "batch"
  /\ LET normalizedNames == { Normalize(parsedItems[r][k].name) : k \in 1..Len(parsedItems[r]) }
         found == ProductMap(SelectIn(normalizedNames))
     IN /\ existingProducts' = [existingProducts EXCEPT ![r] = found]
        /\ Resume(r, LoopFrom(parsedItems[r], found, 1, errors[r]), successes[r])
  /\ UNCHANGED <<parsedTotal, mode, faults, text, userId, parsedItems, products, entries, entryOrigin>>

\* the batch select reports an error: throw new Error(`Database error: ...`)
BatchFails(r) ==
  /\ pc[r] = "batch"
  /\ Fault(r, "batch", 0)
  /\ Resume(r, BatchCatch(text[r], ErrorValue(<<"Database error: ", "unavailable">>), errors[r]),
            successes[r])
  /\ UNCHANGED <<parsedTotal, mode, text, userId, parsedItems, existingProducts, products, entries,
                 entryOrigin>>

CurItem(r) == parsedItems[r][idx[r]]
CurName(r) == Normalize(CurItem(r).name)

\* Rows .eq("name", name) selects.
SelectEq(name) == { p \in products : p.name = name }

\* The per-item catch taken by request r with thrown value e.
Caught(r, e) ==
  Resume(r, ItemCatch(parsedItems[r], existingProducts[r], idx[r], e, errors[r]), successes[r])

\* The product of the current item is known: validate the quantity and go on.
Resolved(r, prod) ==
  Resume(r, ValidateQuantity(parsedItems[r], existingProducts[r], idx[r], prod, errors[r]),
         successes[r])

\* Variant of FetchReturns that asks the LLM without looking at the row found.
FetchReturns_NoCheck(r) ==
  /\ pc[r] = "fetch"
  /\ pc' = [pc EXCEPT ![r] = "nutrition"]
  /\ calls' = Bump(r, "llm")
  /\ UNCHANGED <<idx, product, errors, successes, nutrition>>
  /\ UNCHANGED <<parsedTotal, mode, faults, text, userId, parsedItems, existingProducts, products, entries,
                 entryOrigin>>

\* fetchOrCreateProduct: the select ... .single() resolves.
\* existing -> return it; PGRST116 (no rows) -> ask the LLM for nutrition data.
FetchReturns(r) ==
  /\ pc[r] = "fetch"
  /\ IF SelectEq(CurName(r)) # {}
     THEN Resolved(r, CHOOSE p \in SelectEq(CurName(r)) : TRUE)
     ELSE /\ pc' = [pc EXCEPT ![r] = "nutrition"]
          /\ calls' = Bump(r, "llm")
          /\ UNCHANGED <<idx, product, errors, successes, nutrition>>
  /\ UNCHANGED <<parsedTotal, mode, faults, text, userId, parsedItems, existingProducts, products, entries,
                 entryOrigin>>

\* the select reports an error other than PGRST116: throw new Error(`Lookup failed: ...`)
FetchFails(r) ==
  /\ pc[r] = "fetch"
  /\ Fault(r, "select", idx[r])
  /\ Caught(r, ErrorValue(<<"Lookup failed: ", "unavailable">>))
  /\ UNCHANGED <<parsedTotal, mode, text, userId, parsedItems, existingProducts, products, entries,
                 entryOrigin>>

\* fetchNutritionData resolves; the product insert is issued.
NutritionReturns(r) ==
  /\ pc[r] = "nutrition"
  /\ \E n \in NutritionResponses :
       /\ nutrition' = [nutrition EXCEPT ![r] = n]
       /\ IF NonNegative(n) THEN UNCHANGED faults ELSE Fault(r, "nutrition", idx[r])
  /\ pc' = [pc EXCEPT ![r] = "insertProduct"]
  /\ calls' = Bump(r, "insertProduct")
  /\ UNCHANGED <<parsedTotal, mode, text, userId, parsedItems, existingProducts, idx, product,
                 successes, errors, products, entries, entryOrigin>>

\* fetchNutritionData rejects.
NutritionFails(r) ==
  /\ pc[r] = "nutrition"
  /\ Fault(r, "llm", idx[r])
  /\ \E e \in LLMFailures : Caught(r, e)
  /\ UNCHANGED <<parsedTotal, mode, text, userId, parsedItems, existingProducts, products, entries,
                 entryOrigin>>

\* Variant of ProductViolation for a table without the >= 0 checks.
ProductViolation_NoCheck(row) ==
  IF \E p \in products : p.name = row.name THEN "unique_violation" ELSE "none"

\* Constraints of table products: name unique, nutrition columns >= 0.
ProductViolation(row) ==
  IF \E p \in products : p.name = row.name THEN "unique_violation"
  ELSE IF row.calories < 0 \/ row.protein < 0 \/ row.fat < 0 \/ row.carbs < 0
       THEN "check_violation"
       ELSE "none"

\* The row the product insert of request r would create.
ProductInsert(r) ==
  [id |-> Cardinality(products) + 1, name |-> CurName(r),
   nutrition_basis |-> nutrition[r].nutritionBasis,
   calories |-> nutrition[r].calories, protein |-> nutrition[r].protein,
   fat |-> nutrition[r].fat, carbs |-> nutrition[r].carbs]

\* Variant of OnInsertError that overwrites the row of the same name (an upsert).
OnInsertError_Upsert(r, v) ==
  /\ Caught(r, ErrorValue(<<"Failed to create product: ", v>>))
  /\ products' = IF v = "unique_violation"
                 THEN { p \in products : p.name # CurName(r) } \cup {ProductInsert(r)}
                 ELSE products

\* What fetchOrCreateProduct does when the insert reports error code v.
OnInsertError(r, v) ==
  /\ Caught(r, ErrorValue(<<"Failed to create product: ", v>>))
  /\ UNCHANGED products

\* Variant of InsertProductReturns that goes on with the row before it is stored.
InsertProductReturns_NoWait(r) ==
  /\ pc[r] = "insertProduct"
  /\ Resolved(r, ProductInsert(r))
  /\ UNCHANGED <<parsedTotal, mode, faults, text, userId, parsedItems, existingProducts, entries,
                 entryOrigin, products>>

\* the insert into products resolves: a row, or a constraint violation.
InsertProductReturns(r) ==
  /\ pc[r] = "insertProduct"
  /\ LET row == ProductInsert(r)
         v == ProductViolation(row)
     IN IF v = "none"
        THEN /\ products' = products \cup {row}
             /\ Resolved(r, row)
        ELSE OnInsertError(r, v)
  /\ UNCHANGED <<parsedTotal, mode, faults, text, userId, parsedItems, existingProducts, entries, entryOrigin>>

\* the insert into products fails for another reason (connection, timeout).
InsertProductFails(r) ==
  /\ pc[r] = "insertProduct"
  /\ Fault(r, "insertProduct", idx[r])
  /\ OnInsertError(r, "unavailable")
  /\ UNCHANGED <<parsedTotal, mode, text, userId, parsedItems, existingProducts, entries, entryOrigin>>

\* NutritionDto of insertEntry: the product's columns.
EntryNutrition(prod, quantity) ==
  [calories |-> prod.calories, protein |-> prod.protein,
   fat |-> prod.fat, carbs |-> prod.carbs]

\* EntryDto returned by insertEntry (item: position of the parsed item, history only).
EntryDto(entry, prod, i) ==
  [entryId |-> entry.id, productId |-> entry.product_id, name |-> prod.name,
   quantity |-> entry.quantity, nutrition |-> EntryNutrition(prod, entry.quantity),
   consumedAt |-> entry.consumed_at, item |-> i]

\* Variant of PushSuccess that puts the new entry in front (unshift).
PushSuccess_Unshift(succ, dto) == <<dto>> \o succ

\* Variant of PushSuccess that forgets the entry.
PushSuccess_Skip(succ, dto) == succ

\* successes.push(entry)
PushSuccess(succ, dto) == Append(succ, dto)

\* the insert into entries resolves with the new row.
InsertEntryReturns(r) ==
  /\ pc[r] = "insertEntry"
  /\ LET entry == [id |-> Cardinality(entries) + 1, user_id |-> userId[r],
                   product_id |-> product[r].id, quantity |-> CurItem(r).quantity,
                   consumed_at |-> Today]
     IN /\ entry.quantity > 0
        /\ \E p \in products : p.id = entry.product_id
        /\ entries' = entries \cup {entry}
        /\ entryOrigin' = Append(entryOrigin, <<r, idx[r]>>)
        /\ Resume(r, LoopFrom(parsedItems[r], existingProducts[r], idx[r] + 1, errors[r]),
                  PushSuccess(successes[r], EntryDto(entry, product[r], idx[r])))
  /\ UNCHANGED <<parsedTotal, mode, faults, text, userId, parsedItems, existingProducts, products>>

\* the insert into entries reports an error: throw new Error(`Failed to insert entry: ...`)
InsertEntryFails(r) ==
  /\ pc[r] = "insertEntry"
  /\ Fault(r, "insertEntry", idx[r])
  /\ Caught(r, ErrorValue(<<"Failed to insert entry: ", "unavailable">>))
  /\ UNCHANGED <<parsedTotal, mode, text, userId, parsedItems, existingProducts, products, entries,
                 entryOrigin>>

\* result.successes.length === 0 && result.errors.length > 0 ? 500 : 201
StatusOf(succ, errs) == IF Len(succ) = 0 /\ Len(errs) > 0 THEN 500 ELSE 201

\* process has returned { successes, errors }; the caller answers the request
\* in the same turn of the event loop and the call's locals are dropped.
Return(r) ==
  /\ pc[r] = "done"
  /\ status' = [status EXCEPT ![r] = StatusOf(successes[r], errors[r])]
  /\ pc' = [pc EXCEPT ![r] = "answered"]
  /\ text' = [text EXCEPT ![r] = ""]
  /\ userId' = [userId EXCEPT ![r] = ""]
  /\ parsedItems' = [parsedItems EXCEPT ![r] = <<>>]
  /\ existingProducts' = [existingProducts EXCEPT ![r] = <<>>]
  /\ idx' = [idx EXCEPT ![r] = 0]
  /\ product' = [product EXCEPT ![r] = NoProduct]
  /\ successes' = [successes EXCEPT ![r] = <<>>]
  /\ errors' = [errors EXCEPT ![r] = <<>>]
  /\ calls' = [calls EXCEPT ![r] = NoCalls]
  /\ UNCHANGED <<mode, nutrition, products, entries, faults, parsedTotal, entryOrigin, body>>
  /\ UNCHANGED clientVars
  /\ UNCHANGED apiVars

\* The Response has been sent; the request and its context are gone.
Sent(r) ==
  /\ pc[r] = "answered"
  /\ pc' = [pc EXCEPT ![r] = "returned"]
  /\ body' = [body EXCEPT ![r] = "none"]
  /\ status' = [status EXCEPT ![r] = 0]
  /\ UNCHANGED <<mode, text, userId, parsedItems, existingProducts, idx, product, nutrition,
                 successes, errors, products, entries, faults, parsedTotal, calls, entryOrigin>>
  /\ UNCHANGED clientVars
  /\ UNCHANGED apiVars

\* No completion of an awaited call is handled between the last step of a
\* call of process, its return and the sending of the answer.
NoneDone == \A q \in Reqs : pc[q] \notin {"done", "answered"}

\* A step of process: taken only while no finished call awaits its return, and
\* without effect on the HTTP layer.
InProcess(A) ==
  NoneDone /\ UNCHANGED httpVars /\ UNCHANGED clientVars /\ UNCHANGED apiVars /\ A

Next ==
  \/ \E r \in Reqs : Return(r)
  \/ \E r \in Reqs : Sent(r)
  \/ \E r \in Reqs : NoneDone /\ Process(r)
  \/ \E r \in Reqs : NoneDone /\ PostRejects(r)
  \/ \E r \in Reqs : InProcess(ParseReturns(r))
  \/ \E r \in Reqs : InProcess(ParseFails(r))
  \/ \E r \in Reqs : InProcess(BatchReturns(r))
  \/ \E r \in Reqs : InProcess(BatchFails(r))
  \/ \E r \in Reqs : InProcess(FetchReturns(r))
  \/ \E r \in Reqs : InProcess(FetchFails(r))
  \/ \E r \in Reqs : InProcess(NutritionReturns(r))
  \/ \E r \in Reqs : InProcess(NutritionFails(r))
  \/ \E r \in Reqs : InProcess(InsertProductReturns(r))
  \/ \E r \in Reqs : InProcess(InsertProductFails(r))
  \/ \E r \in Reqs : InProcess(InsertEntryReturns(r))
  \/ \E r \in Reqs : InProcess(InsertEntryFails(r))

\* ---------------------------------------------------------------- OpenRouterService
\* HTTP statuses the upstream may answer with.
Statuses == {200, 201, 400, 401, 403, 429, 500, 501, 502, 503, 504, 599}
\* response.ok
Ok(st) == st >= 200 /\ st <= 299

\* The parsed body of a 2xx answer, by what _parseResponse looks at:
\* the root value, its choices, choices[0].message and its content (a
\* non-string, a string that is not JSON, JSON that satisfies the caller's
\* schema, JSON that does not), model and usage.
Bodies ==
  [root : {"object", "null", "string"},
   choices : {"missing", "notArray", "empty", "one"},
   message : {"missing", "present"},
   content : {"number", "notJson", "matches", "mismatch"},
   model : {"string", "missing", "number"},
   usage : {"ok", "missing", "string", "noTokens"}]
NoBody == [root |-> "none"]
Upstreams ==
  { [status |-> st, body |-> b] : st \in { x \in Statuses : Ok(x) }, b \in Bodies }
    \cup { [status |-> st, body |-> NoBody] : st \in { x \in Statuses : ~Ok(x) } }

\* params.jsonSchema: absent, a Zod schema, or a raw JSON Schema object.
SchemaKinds == {"none", "zod", "json"}
UserMessages == {"", "prompt"}
Params == [userMessage : UserMessages, jsonSchema : SchemaKinds]

\* throw new <class>(...); cause records the statement that threw.
Throw(class, cause) ==
  [class |-> class, cause |-> cause, content |-> "none", model |-> "none", usage |-> "none"]

\* _buildRequest throws: "parse" in params.jsonSchema leads to zodToJsonSchema,
\* which throws Error("Function not implemented.").
BuildThrows(p) == p.jsonSchema = "zod"

\* _parseResponse(response, schema)
ParseResponse(response, schema) ==
  IF response.root # "object" \/ response.choices # "one"
  THEN Throw("ResponseParsingError", "structure")
  ELSE IF response.message = "missing" \/ response.content = "number"
  THEN Throw("ResponseParsingError", "content")
  ELSE IF response.content = "notJson"
  THEN Throw("ResponseParsingError", "json")
  ELSE IF schema = "zod" /\ response.content = "mismatch"
  THEN Throw("ResponseParsingError", "schema")
  ELSE IF response.model # "string" \/ response.usage \in {"missing", "string"}
  THEN Throw("ResponseParsingError", "metadata")
  ELSE IF response.usage = "noTokens"
  THEN Throw("ResponseParsingError", "usage")
  ELSE [class |-> "ok", cause |-> "none", content |-> response.content,
        model |-> response.model, usage |-> response.usage]

\* switch (response.status) of _handleErrorResponse
HandleErrorResponse(st) ==
  CASE st = 401 -> Throw("ApiAuthenticationError", "http")
    [] st = 400 -> Throw("ApiBadRequestError", "http")
    [] st = 429 -> Throw("ApiRateLimitError", "http")
    [] st \in {500, 502, 503, 504} -> Throw("ApiServerError", "http")
    [] OTHER -> Throw("ApiError", "http")

\* chatCompletion ends with value v.
Complete(v) ==
  /\ result' = v
  /\ ccPc' = IF v.class = "ok" THEN "resolved" ELSE "rejected"

\* new OpenRouterService(): the class declares no constructor and reads no
\* configuration, so construction succeeds whatever the environment holds.
Construct ==
  /\ service = "none"
  /\ service' = "ready"
  /\ UNCHANGED <<apiKey, ccPc, params, timeoutId, requests, upstream, result>>

\* chatCompletion(params) is called: input check, _buildRequest, and
\* _sendRequest up to await fetch(...).
ChatCompletion ==
  /\ service = "ready"
  /\ ccPc = "idle"
  /\ \E p \in Params, u \in Upstreams :
       /\ params' = p
       /\ upstream' = u
       /\ IF p.userMessage = ""
          THEN /\ Complete(Throw("ApiBadRequestError", "input"))
               /\ UNCHANGED <<timeoutId, requests>>
          ELSE IF BuildThrows(p)
          THEN /\ Complete(Throw("ResponseParsingError", "unexpected"))
               /\ UNCHANGED <<timeoutId, requests>>
          ELSE /\ ccPc' = "fetch"
               /\ timeoutId' = "armed"
               /\ requests' = requests + 1
               /\ UNCHANGED result
  /\ UNCHANGED <<apiKey, service>>

\* fetch resolves with the response headers; clearTimeout(timeoutId); the
\* body is read next (response.json(), in _handleErrorResponse when !response.ok).
FetchResolves ==
  /\ ccPc = "fetch"
  /\ timeoutId = "armed"
  /\ timeoutId' = "cleared"
  /\ ccPc' = IF Ok(upstream.status) THEN "json" ELSE "errorJson"
  /\ UNCHANGED <<apiKey, service, params, requests, upstream, result>>

\* fetch rejects with a TypeError (connection refused, DNS, reset).
FetchRejects ==
  /\ ccPc = "fetch"
  /\ timeoutId = "armed"
  /\ timeoutId' = "cleared"
  /\ Complete(Throw("NetworkError", "transport"))
  /\ UNCHANGED <<apiKey, service, params, requests, upstream>>

\* the timer fires: controller.abort(), fetch rejects with an AbortError.
Timeout ==
  /\ timeoutId = "armed"
  /\ timeoutId' = "fired"
  /\ Complete(Throw("NetworkError", "timeout"))
  /\ UNCHANGED <<apiKey, service, params, requests, upstream>>

\* response.json() of a 2xx answer resolves; _parseResponse runs.
JsonResolves ==
  /\ ccPc = "json"
  /\ Complete(ParseResponse(upstream.body, params.jsonSchema))
  /\ UNCHANGED <<apiKey, service, params, timeoutId, requests, upstream>>

\* response.json() of a 2xx answer rejects (the body is not JSON, or the
\* connection breaks while it is read): _sendRequest's catch wraps it.
JsonRejects ==
  /\ ccPc = "json"
  /\ Complete(Throw("NetworkError", "body"))
  /\ UNCHANGED <<apiKey, service, params, timeoutId, requests, upstream>>

\* response.json() in _handleErrorResponse settles (a rejection is caught
\* there); the status decides the error thrown.
ErrorJsonSettles ==
  /\ ccPc = "errorJson"
  /\ Complete(HandleErrorResponse(upstream.status))
  /\ UNCHANGED <<apiKey, service, params, timeoutId, requests, upstream>>

\* The caller takes the outcome; the invocation's locals are dropped.
Settle ==
  /\ ccPc \in {"resolved", "rejected"}
  /\ ccPc' = "idle"
  /\ params' = NoParams
  /\ timeoutId' = "unset"
  /\ requests' = 0
  /\ upstream' = NoUpstream
  /\ result' = NoResult
  /\ UNCHANGED <<apiKey, service>>

\* A step of the client leaves the meal pipeline alone.
InClient(A) == A /\ UNCHANGED pipelineVars /\ UNCHANGED apiVars

NextClient ==
  \/ InClient(Construct)
  \/ InClient(ChatCompletion)
  \/ InClient(FetchResolves)
  \/ InClient(FetchRejects)
  \/ InClient(Timeout)
  \/ InClient(JsonResolves)
  \/ InClient(JsonRejects)
  \/ InClient(ErrorJsonSettles)
  \/ InClient(Settle)

\* ------------------------------------------- data services and the middleware
\* Numbers the services compute are kept in units of 1/10000, so that
\* quantity / 100 and toFixed(2) stay exact integer operations; a goal is kept
\* in tenths, so that a goal that is no whole number can be submitted.
Null == <<>>
Some(v) == <<v>>

\* Rows of products with each nutrition_basis of the enum.
ApiProducts ==
  SeedProducts \cup
  { [id |-> 2, name |-> "egg", nutrition_basis |-> "unit",
     calories |-> 70, protein |-> 6, fat |-> 5, carbs |-> 1],
    [id |-> 3, name |-> "milk", nutrition_basis |-> "100ml",
     calories |-> 42, protein |-> 3, fat |-> 1, carbs |-> 5] }
ApiDates == {"2025-10-27", Today}
\* Position of a date in calendar order.
DateRank(d) == IF d = Today THEN 2 ELSE 1
\* Rows the entries table may hold when a service is called.
ApiEntryRows ==
  { [id |-> 1, user_id |-> "u1", product_id |-> 1, quantity |-> 200, consumed_at |-> Today],
    [id |-> 2, user_id |-> "u1", product_id |-> 2, quantity |-> 3, consumed_at |-> Today],
    [id |-> 3, user_id |-> "u2", product_id |-> 3, quantity |-> 250, consumed_at |-> Today],
    [id |-> 4, user_id |-> "u1", product_id |-> 1, quantity |-> 50,
     consumed_at |-> "2025-10-27"] }
ApiEntryTables == { S \in SUBSET ApiEntryRows : Cardinality(S) <= MaxEntries }
\* user_goals holds at most one row per user (user_id is unique).
GoalTables ==
  SUBSET { [user_id |-> "u1", daily_calorie_goal |-> 20000],
           [user_id |-> "u2", daily_calorie_goal |-> 18000] }
\* Arguments the services and handlers are called with.
UserArgs == Users \cup {""}
DateArgs == ApiDates \cup {"none"}
EntryIdArgs == 0..4
GoalArgs == {0, 18005, 20000, 25000}
\* Bodies of PUT /api/user-goals: not JSON, or JSON with a dailyCalorieGoal.
PutBodies ==
  {[kind |-> "malformed"]} \cup { [kind |-> "json", dailyCalorieGoal |-> g] : g \in GoalArgs }
Sessions == Users \cup {"none"}
PUBLIC_PATHS ==
  {"/", "/update-password", "/api/auth/login", "/api/auth/register", "/api/auth/forgot-password"}
Paths == PUBLIC_PATHS \cup {"/dashboard", "/api/user-goals"}

RECURSIVE Sum(_, _)
\* The sum of f over the set S.
Sum(f, S) ==
  IF S = {} THEN 0
  ELSE LET x == CHOOSE y \in S : TRUE IN f[x] + Sum(f, S \ {x})

\* The products(...) row joined to an entry.
ProductOf(e) == CHOOSE p \in products : p.id = e.product_id
\* date ?? today
TargetDate(date) == IF date = "none" THEN Today ELSE date

\* Variant of Factor that divides every quantity by 100.
Factor_PerHundred(basis, qty) == qty * 100

\* const factor = basis === "100g" || basis === "100ml" ? qty / 100 : qty
Factor(basis, qty) == IF basis \in {"100g", "100ml"} THEN qty * 100 ELSE qty * 10000

\* The loop of getDailySummary over the rows selected.
Totals(rows) ==
  LET f(field) == [e \in rows |->
                     ProductOf(e)[field] * Factor(ProductOf(e).nutrition_basis, e.quantity)]
  IN [calories |-> Sum(f("calories"), rows), protein |-> Sum(f("protein"), rows),
      fat |-> Sum(f("fat"), rows), carbs |-> Sum(f("carbs"), rows)]

\* Number(x.toFixed(2)) for x >= 0
ToFixed2(x) == ((x + 50) \div 100) * 100
\* (entry.quantity / 100) * value
PerHundred(qty, value) == qty * value * 100
\* One element of the map in getEntries.
EntryView(e) ==
  LET p == ProductOf(e)
  IN [entryId |-> e.id, productId |-> p.id, name |-> p.name, quantity |-> e.quantity,
      nutrition |-> [calories |-> ToFixed2(PerHundred(e.quantity, p.calories)),
                     protein |-> ToFixed2(PerHundred(e.quantity, p.protein)),
                     fat |-> ToFixed2(PerHundred(e.quantity, p.fat)),
                     carbs |-> ToFixed2(PerHundred(e.quantity, p.carbs))],
      consumedAt |-> e.consumed_at]
\* The orders in which .order("consumed_at", { ascending: false }) may return rows.
OrderedDesc(rows) ==
  { q \in [1..Cardinality(rows) -> rows] :
      /\ \A i, j \in DOMAIN q : i < j => q[i] # q[j]
      /\ \A i, j \in DOMAIN q : i < j => DateRank(q[i].consumed_at) >= DateRank(q[j].consumed_at) }

\* A service call ends by throwing.
Throws(call, message) ==
  /\ out' = [call EXCEPT !.pc = "thrown"] @@ [kind |-> "throw", message |-> message]
  /\ api' = NoApi
\* A service call ends by returning value.
Returns(call, value) ==
  /\ out' = [call EXCEPT !.pc = "returned"] @@ [kind |-> "return", value |-> value]
  /\ api' = NoApi

\* getDailySummary(userId, date) up to its first await.
GetDailySummary(u, d) ==
  /\ api = NoApi
  /\ api' = [op |-> "summary", pc |-> "entries", userId |-> u, date |-> d]
  /\ out' = NoOut
  /\ UNCHANGED <<entries, goals, locals>>

\* The select on entries resolves; the totals are summed.
SummaryEntriesResolve(ok) ==
  /\ api.op = "summary" /\ api.pc = "entries"
  /\ IF ok
     THEN LET rows == { e \in entries : e.user_id = api.userId
                                        /\ e.consumed_at = TargetDate(api.date) }
          IN /\ api' = [api EXCEPT !.pc = "goal"] @@ [totals |-> Totals(rows)]
             /\ out' = out
     ELSE Throws(api, "Database error fetching entries")
  /\ UNCHANGED <<entries, goals, locals>>

\* The select on user_goals resolves: a row, no row (PGRST116) or another error.
SummaryGoalResolves(ok) ==
  /\ api.op = "summary" /\ api.pc = "goal"
  /\ IF ok
     THEN LET rows == { g \in goals : g.user_id = api.userId }
              goal == IF rows = {} THEN Null
                      ELSE Some((CHOOSE g \in rows : TRUE).daily_calorie_goal)
          IN Returns(api, api.totals @@ [goal |-> goal])
     ELSE Throws(api, "Database error fetching user goal")
  /\ UNCHANGED <<entries, goals, locals>>

\* EntryService.getEntries(userId, query) up to its await.
GetEntries(u, d) ==
  /\ api = NoApi
  /\ LET call == [op |-> "entries", pc |-> "select", userId |-> u, date |-> d]
     IN IF u = ""
        THEN Throws(call, "Invalid user ID")
        ELSE api' = call /\ out' = NoOut
  /\ UNCHANGED <<entries, goals, locals>>

\* The query of getEntries resolves; the rows are mapped.
GetEntriesResolves(ok) ==
  /\ api.op = "entries" /\ api.pc = "select"
  /\ IF ok
     THEN LET rows == { e \in entries : /\ e.user_id = api.userId
                                        /\ api.date # "none" => e.consumed_at = api.date }
          IN \E q \in OrderedDesc(rows) :
               Returns(api, [data |-> [i \in DOMAIN q |-> EntryView(q[i])],
                             pagination |-> [page |-> 1, size |-> Len(q), total |-> Len(q)]])
     ELSE Throws(api, "Database error fetching entries")
  /\ UNCHANGED <<entries, goals, locals>>

\* EntryService.deleteEntry(userId, entryId) up to its first await; entryId 0
\* stands for the empty id.
DeleteEntry(u, id) ==
  /\ api = NoApi
  /\ LET call == [op |-> "delete", pc |-> "fetch", userId |-> u, entryId |-> id]
     IN IF u = "" THEN Throws(call, "Invalid user ID")
        ELSE IF id = 0 THEN Throws(call, "Invalid entry ID")
        ELSE api' = call /\ out' = NoOut
  /\ UNCHANGED <<entries, goals, locals>>

\* Variant of DeleteFetchResolves without the ownership guard.
DeleteFetchResolves_NoGuard(ok) ==
  /\ api.op = "delete" /\ api.pc = "fetch"
  /\ LET found == { e \in entries : e.id = api.entryId }
     IN IF ~ok THEN Throws(api, "Database error fetching entry")
        ELSE IF found = {} THEN Returns(api, [success |-> FALSE, reason |-> "not-found"])
        ELSE api' = [api EXCEPT !.pc = "delete"] /\ out' = out
  /\ UNCHANGED <<entries, goals, locals>>

\* The select of deleteEntry resolves: the row, no row (PGRST116) or another error.
DeleteFetchResolves(ok) ==
  /\ api.op = "delete" /\ api.pc = "fetch"
  /\ LET found == { e \in entries : e.id = api.entryId }
     IN IF ~ok THEN Throws(api, "Database error fetching entry")
        ELSE IF found = {} THEN Returns(api, [success |-> FALSE, reason |-> "not-found"])
        ELSE IF (CHOOSE e \in found : TRUE).user_id # api.userId
        THEN Returns(api, [success |-> FALSE, reason |-> "forbidden"])
        ELSE api' = [api EXCEPT !.pc = "delete"] /\ out' = out
  /\ UNCHANGED <<entries, goals, locals>>

\* The delete of deleteEntry resolves.
DeleteResolves(ok) ==
  /\ api.op = "delete" /\ api.pc = "delete"
  /\ IF ok
     THEN /\ entries' = { e \in entries : ~(e.id = api.entryId /\ e.user_id = api.userId) }
          /\ Returns(api, [success |-> TRUE, reason |-> "none"])
     ELSE /\ entries' = entries
          /\ Throws(api, "Database error deleting entry")
  /\ UNCHANGED <<goals, locals>>

\* The HTTP exchange ends with a response of the given status.
Responds(call, status_) ==
  /\ out' = [call EXCEPT !.pc = "responded"] @@ [kind |-> "response", status |-> status_]
  /\ api' = NoApi

\* onRequest up to its await (or up to next(), on a public path).
OnRequest(path, session) ==
  /\ api = NoApi
  /\ out' = NoOut
  /\ IF path \in PUBLIC_PATHS
     THEN /\ api' = [op |-> "http", pc |-> "handler", path |-> path, session |-> session]
          /\ locals' = NoLocals
     ELSE /\ api' = [op |-> "http", pc |-> "getUser", path |-> path, session |-> session]
          /\ locals' = [supabase |-> TRUE, user |-> "none"]
  /\ UNCHANGED <<entries, goals>>

\* Variant of GetUserResolves that calls next() whether or not a user was found.
GetUserResolves_AlwaysNext(user) ==
  /\ api.op = "http" /\ api.pc = "getUser"
  /\ user \in {api.session, "none"}
  /\ locals' = [locals EXCEPT !.user = user]
  /\ api' = [api EXCEPT !.pc = "handler"]
  /\ out' = out
  /\ UNCHANGED <<entries, goals>>

\* supabase.auth.getUser() resolves with the session's user or with none.
GetUserResolves(user) ==
  /\ api.op = "http" /\ api.pc = "getUser"
  /\ user \in {api.session, "none"}
  /\ IF user # "none"
     THEN /\ locals' = [locals EXCEPT !.user = user]
          /\ api' = [api EXCEPT !.pc = "handler"]
          /\ out' = out
     ELSE /\ locals' = locals
          /\ out' = [api EXCEPT !.pc = "responded"] @@ [kind |-> "redirect", location |-> "/"]
          /\ api' = NoApi
  /\ UNCHANGED <<entries, goals>>

\* next() on a path other than /api/user-goals: the route's handler runs.
RouteHandler ==
  /\ api.op = "http" /\ api.pc = "handler" /\ api.path # "/api/user-goals"
  /\ out' = [api EXCEPT !.pc = "responded"] @@ [kind |-> "handled", user |-> locals.user]
  /\ api' = NoApi
  /\ UNCHANGED <<entries, goals, locals>>

\* UpsertUserGoalCommandSchema.safeParse(body).success
ValidGoal(body_) == body_.dailyCalorieGoal > 0

\* PUT /api/user-goals up to the await inside getUserGoal.
PUT(body_) ==
  /\ api.op = "http" /\ api.pc = "handler" /\ api.path = "/api/user-goals"
  /\ LET call == api @@ [body |-> body_]
     IN IF ~locals.supabase \/ locals.user = "none" THEN Responds(call, 500)
        ELSE IF body_.kind = "malformed" THEN Responds(call, 500)
        ELSE IF ~ValidGoal(body_) THEN Responds(call, 400)
        ELSE /\ api' = [call EXCEPT !.pc = "getUserGoal"] @@ [goal |-> body_.dailyCalorieGoal]
             /\ out' = out
  /\ UNCHANGED <<entries, goals, locals>>

\* getUserGoal inside upsertUserGoal resolves: a goal, null (PGRST116), or it
\* throws and the handler's catch answers 500.
GetUserGoalResolves(ok) ==
  /\ api.op = "http" /\ api.pc = "getUserGoal"
  /\ IF ok
     THEN /\ api' = [api EXCEPT !.pc = IF \E g \in goals : g.user_id = locals.user
                                       THEN "update" ELSE "insert"]
          /\ out' = out
     ELSE Responds(api, 500)
  /\ UNCHANGED <<entries, goals, locals>>

\* daily_calorie_goal is an integer column with check (> 0).
Storable(goal) == goal % 10 = 0 /\ goal > 0

\* The update of upsertUserGoal settles; its error, if any, is not read.
UpdateResolves(ok) ==
  /\ api.op = "http" /\ api.pc = "update"
  /\ goals' = IF ok /\ Storable(api.goal)
              THEN { IF g.user_id = locals.user
                     THEN [g EXCEPT !.daily_calorie_goal = api.goal] ELSE g : g \in goals }
              ELSE goals
  /\ Responds(api, 200)
  /\ UNCHANGED <<entries, locals>>

\* The insert of upsertUserGoal settles; its error, if any, is not read.
InsertResolves(ok) ==
  /\ api.op = "http" /\ api.pc = "insert"
  /\ goals' = IF ok /\ Storable(api.goal) /\ ~\E g \in goals : g.user_id = locals.user
              THEN goals \cup {[user_id |-> locals.user, daily_calorie_goal |-> api.goal]}
              ELSE goals
  /\ Responds(api, 200)
  /\ UNCHANGED <<entries, locals>>

\* What the data services and the middleware leave alone.
apiFrame == <<mode, pc, text, userId, parsedItems, existingProducts, idx, product, nutrition,
              successes, errors, products, faults, parsedTotal, calls, entryOrigin, body,
              status, apiKey, service, ccPc, params, timeoutId, requests, upstream, result>>
InApi(A) == A /\ UNCHANGED apiFrame

NextApi ==
  \/ \E u \in Users, d \in DateArgs : InApi(GetDailySummary(u, d))
  \/ \E ok \in BOOLEAN : InApi(SummaryEntriesResolve(ok))
  \/ \E ok \in BOOLEAN : InApi(SummaryGoalResolves(ok))
  \/ \E u \in UserArgs, d \in DateArgs : InApi(GetEntries(u, d))
  \/ \E ok \in BOOLEAN : InApi(GetEntriesResolves(ok))
  \/ \E u \in UserArgs, id \in EntryIdArgs : InApi(DeleteEntry(u, id))
  \/ \E ok \in BOOLEAN : InApi(DeleteFetchResolves(ok))
  \/ \E ok \in BOOLEAN : InApi(DeleteResolves(ok))
  \/ \E path \in Paths, session \in Sessions : InApi(OnRequest(path, session))
  \/ \E user \in Sessions : InApi(GetUserResolves(user))
  \/ InApi(RouteHandler)
  \/ \E body_ \in PutBodies : InApi(PUT(body_))
  \/ \E ok \in BOOLEAN : InApi(GetUserGoalResolves(ok))
  \/ \E ok \in BOOLEAN : InApi(UpdateResolves(ok))
  \/ \E ok \in BOOLEAN : InApi(InsertResolves(ok))

\* The data services and the middleware over tables that already hold rows.
InitApi ==
  /\ mode = "api"
  /\ InitLocals
  /\ products = ApiProducts
  /\ entries \in ApiEntryTables
  /\ goals \in GoalTables
  /\ ApiIdle
  /\ apiKey = "set"
  /\ ClientIdle

Spec == Init /\ [][Next]_vars
SpecConc == InitConc /\ [][Next]_vars
\* OpenRouterService alone.  The upstream owes no answer; SpecClientFair adds
\* the one thing the code's runtime guarantees: an armed timer fires.
SpecClient == InitClient /\ [][NextClient]_vars
SpecClientFair == InitClient /\ [][NextClient]_vars /\ WF_vars(InClient(Timeout))
SpecApi == InitApi /\ [][NextApi]_vars

TypeOK ==
  /\ pc \in [Reqs -> {"idle", "parse", "batch", "fetch", "nutrition", "insertProduct",
                      "insertEntry", "done", "answered", "returned", "rejected"}]
  /\ text \in [Reqs -> Texts \cup {""}]
  /\ userId \in [Reqs -> {DEFAULT_USER_ID, ""}]
  /\ body \in [Reqs -> BodyKinds \cup {"none"}]
  /\ status \in [Reqs -> {0, 201, 400, 500}]
  /\ \A r \in Reqs : Len(parsedItems[r]) <= MaxItems
  /\ parsedTotal <= MaxItems
  /\ Cardinality(faults) <= MaxFaults

\* ---------------------------------------------------------------- properties
Done(r) == pc[r] = "done"
ItemsOf(seq) == { seq[k].item : k \in 1..Len(seq) }
FaultsOf(r) == { f \in faults : f.req = r }
HasProduct(name) == \E p \in products : p.name = name
\* The per-item loop of request r was entered (the batch lookup succeeded).
LoopRan(r) == parsedItems[r] # <<>> /\ pc[r] \notin {"parse", "batch"} /\ 0 \notin ItemsOf(errors[r])

\* C1: whenever process returns after the parser produced N >= 1 items,
\* successes.length + errors.length = N, whatever failed after parsing.
C1_ResultCount ==
  \A r \in Reqs :
    (Done(r) /\ Len(parsedItems[r]) >= 1)
      => Len(successes[r]) + Len(errors[r]) = Len(parsedItems[r])

\* C2: a request that parses to "chicken 200" and "unknownproduct 50", where
\* chicken resolves and is written and unknownproduct cannot be resolved, returns
\* exactly one success, named "chicken", and exactly one error, whose text is
\* the unresolved item's name and quantity.
Chicken200 == [name |-> "chicken", quantity |-> 200]
Unknown50 == [name |-> "unknownproduct", quantity |-> 50]
PartialCase(r) ==
  /\ Done(r)
  /\ parsedItems[r] \in { <<Chicken200, Unknown50>>, <<Unknown50, Chicken200>> }
  /\ ~HasProduct("unknownproduct")
  /\ \A f \in FaultsOf(r) : f.item # 0 /\ parsedItems[r][f.item] = Unknown50
C3_ParseFailure ==
  \A r \in Reqs :
    (Done(r) /\ parsedItems[r] = <<>>) =>
      /\ successes[r] = <<>>
      /\ Len(errors[r]) = 1
      /\ errors[r][1].text = <<TextOf(r)>>
      /\ calls[r] = [NoCalls EXCEPT !.parse = 1]
\* An empty parse, after an earlier request whose parser call failed.
C3_Witness ==
  /\ \E r \in Reqs : Done(r) /\ parsedItems[r] = <<>> /\ FaultsOf(r) = {}
  /\ \E f \in faults : f.stage = "parse"

\* C4: every success carries quantity-scaled nutrition: per-basis value times
\* quantity/100 for the 100g and 100ml bases, times quantity for the unit basis.
C4_ScaledNutrition ==
  \A r \in Reqs : \A k \in 1..Len(successes[r]) :
    LET s == successes[r][k]
        p == CHOOSE p \in products : p.id = s.productId
        Scaled(given, perBasis) ==
          IF p.nutrition_basis \in {"100g", "100ml"}
          THEN given * 100 = perBasis * s.quantity
          ELSE given = perBasis * s.quantity
    IN /\ Scaled(s.nutrition.calories, p.calories)
       /\ Scaled(s.nutrition.protein, p.protein)
       /\ Scaled(s.nutrition.fat, p.fat)
       /\ Scaled(s.nutrition.carbs, p.carbs)

\* Errors and successes of request r that belong to parsed item i.
ErrorsFor(r, i) == { k \in 1..Len(errors[r]) : errors[r][k].item = i }
SuccessesFor(r, i) == { k \in 1..Len(successes[r]) : successes[r][k].item = i }
EntriesFor(r, i) == { id \in 1..Len(entryOrigin) : entryOrigin[id] = <<r, i>> }
QuantityMessage == <<"Quantity must be greater than zero">>

\* C5: once the per-item loop of a sequentially run request has finished, every
\* item with quantity <= 0 has exactly one error and no Entry row (the quantity
\* error when nothing failed while resolving it), and every item with
\* quantity > 0 for which no call failed is in successes.
C5_QuantityValidation ==
  \A r \in Reqs :
    (Done(r) /\ LoopRan(r)) =>
      \A i \in 1..Len(parsedItems[r]) :
        IF parsedItems[r][i].quantity <= 0
        THEN /\ Cardinality(ErrorsFor(r, i)) = 1
             /\ EntriesFor(r, i) = {}
             /\ SuccessesFor(r, i) = {}
             /\ (\A f \in FaultsOf(r) : f.item # i)
                  => \A k \in ErrorsFor(r, i) : errors[r][k].message = QuantityMessage
        ELSE (\A f \in FaultsOf(r) : f.item # i)
                  => Cardinality(SuccessesFor(r, i)) = 1 /\ ErrorsFor(r, i) = {}
C5_Witness ==
  \E r \in Reqs :
    /\ Done(r) /\ LoopRan(r) /\ Len(parsedItems[r]) = 3
    /\ parsedItems[r][1].quantity = 0 /\ parsedItems[r][1].name = "chicken"
    /\ parsedItems[r][2].quantity = 0 /\ parsedItems[r][2].name = "unknownproduct"
    /\ HasProduct("unknownproduct")
    /\ SuccessesFor(r, 3) # {}
    /\ errors[r][1].message = QuantityMessage /\ errors[r][2].message = QuantityMessage

ItemList(seq) == [k \in 1..Len(seq) |-> seq[k].item]
InItemOrder(seq) == \A a, b \in 1..Len(seq) : a < b => seq[a].item < seq[b].item
ResolutionStages == {"select", "llm", "nutrition", "insertProduct"}
\* Three parsed items of which only the second fails, during its resolution.
SecondFails(r) ==
  /\ Done(r) /\ Len(parsedItems[r]) = 3
  /\ parsedItems[r][1].quantity > 0 /\ parsedItems[r][3].quantity > 0
  /\ FaultsOf(r) # {}
  /\ \A f \in FaultsOf(r) : f.item = 2 /\ f.stage \in ResolutionStages

\* C6: successes and errors each keep the order of the parsed list; with three
\* items of which only the second fails resolution, successes is
\* [item 1, item 3] and errors is [item 2].
C6_Ordering ==
  \A r \in Reqs :
    /\ InItemOrder(successes[r])
    /\ InItemOrder(errors[r])
    /\ SecondFails(r) => ItemList(successes[r]) = <<1, 3>> /\ ItemList(errors[r]) = <<2>>
C6_Witness ==
  \E r \in Reqs :
    /\ SecondFails(r)
    /\ parsedItems[r][1].name = "unknownproduct"
    /\ ItemList(successes[r]) = <<1, 3>>

\* C7: with requests run one after the other, a name has at most one Product
\* row; a nutrition LLM call or a product insert is in flight only for a name
\* that has no row; an item that got its product holds the one row of its
\* name, and every success references the one row of its name.
C7_ResolveOnce ==
  /\ \A p, q \in products : p.name = q.name => p = q
  /\ \A r \in Reqs :
       /\ pc[r] \in {"nutrition", "insertProduct"} => ~HasProduct(CurName(r))
       /\ pc[r] = "insertEntry" => SelectEq(CurName(r)) = {product[r]}
       /\ \A k \in 1..Len(successes[r]) :
            \E p \in products :
              /\ p.id = successes[r][k].productId
              /\ p.name = Normalize(parsedItems[r][successes[r][k].item].name)
\* The same uncached name twice in one request, and again in a later request.
C7_Witness ==
  /\ Done(2) /\ Len(successes[2]) = 2
  /\ \A k \in 1..2 : successes[2][k].name = "unknownproduct"
  /\ successes[2][1].productId = successes[2][2].productId
  /\ calls[2].llm = 0 /\ calls[2].insertProduct = 0
  /\ \E e \in entries : e.id \in EntriesFor(1, 1) /\ e.product_id = successes[2][1].productId
  /\ Cardinality(products) = 2

\* C8: no item gets an error because its product insert hit the uniqueness
\* violation of a concurrent request.
C8_RaceBenign ==
  \A r \in Reqs : \A k \in 1..Len(errors[r]) :
    \A j \in 1..Len(errors[r][k].message) : errors[r][k].message[j] # "unique_violation"

\* C9: process never rejects; a failure of the parser or of the batch lookup
\* ends the request with an error for the whole text, and every failure while
\* an item is handled is recorded as that item's error.
C9_NeverThrows ==
  \A r \in Reqs :
    /\ pc[r] # "rejected"
    /\ pc[r] \notin {"answered", "returned"} => \A f \in FaultsOf(r) :
         IF f.item = 0
         THEN Done(r) /\ successes[r] = <<>> /\ ItemList(errors[r]) = <<0>>
         ELSE \/ f.stage = "nutrition" /\ pc[r] = "insertProduct" /\ idx[r] = f.item
              \/ \E k \in ErrorsFor(r, f.item) :
                   /\ errors[r][k].text = ItemText(parsedItems[r][f.item])
                   /\ Head(errors[r][k].message) = "Failed to create entry: "
C9_Witness ==
  \E r \in Reqs :
    /\ Done(r) /\ Len(successes[r]) = 2
    /\ \E f \in FaultsOf(r) : f.stage = "llm"
    /\ \E k \in 1..Len(errors[r]) :
         errors[r][k].message = <<"Failed to create entry: ", "Unknown error">>

\* C10: each parsed item has at most one Entry row; a row exists for an item
\* exactly when the item is in successes (which then names that row); Entry
\* rows are never removed or changed by later steps.
C10_State ==
  /\ { e.id : e \in entries } = 1..Len(entryOrigin)
  /\ Cardinality(entries) = Len(entryOrigin)
  /\ \A r \in Reqs : \A i \in 1..Len(parsedItems[r]) :
       /\ Cardinality(EntriesFor(r, i)) <= 1
       /\ Cardinality(SuccessesFor(r, i)) = Cardinality(EntriesFor(r, i))
       /\ \A k \in SuccessesFor(r, i) : successes[r][k].entryId \in EntriesFor(r, i)
C10_EntryPerItem == []C10_State /\ [][entries \subseteq entries']_vars
\* An entry written for item 1 is still there after item 2 failed.
C10_Witness ==
  \E r \in Reqs :
    /\ Done(r) /\ Len(parsedItems[r]) >= 2
    /\ EntriesFor(r, 1) # {} /\ SuccessesFor(r, 1) # {}
    /\ \E f \in FaultsOf(r) : f.item = 2 /\ f.stage = "insertEntry"

\* Request r holds a nutrition profile with a negative value for its current item.
NegativeProfile(r) == pc[r] = "insertProduct" /\ ~NonNegative(nutrition[r])
\* Item j of request r was handled: it has exactly one success or error.
Handled(r, j) == Cardinality(SuccessesFor(r, j)) + Cardinality(ErrorsFor(r, j)) = 1

\* C11: a nutrition profile with a negative value creates no Product row (no
\* row ever holds a negative value, and the insert of that profile leaves the
\* table as it was and records an error for the item); once the request is
\* done that item has exactly one error, no success and no Entry row, and every
\* other item was handled, with a success when its quantity is positive and
\* nothing failed for it.
C11_State ==
  /\ \A p \in products : NonNegative(p)
  /\ \A r \in Reqs : Done(r) =>
       \A f \in FaultsOf(r) : f.stage = "nutrition" =>
         /\ Cardinality(ErrorsFor(r, f.item)) = 1
         /\ SuccessesFor(r, f.item) = {}
         /\ EntriesFor(r, f.item) = {}
         /\ \A j \in 1..Len(parsedItems[r]) : j # f.item =>
              /\ Handled(r, j)
              /\ (parsedItems[r][j].quantity > 0 /\ \A g \in FaultsOf(r) : g.item # j)
                   => SuccessesFor(r, j) # {}
C11_Step ==
  \A r \in Reqs :
    (NegativeProfile(r) /\ pc'[r] # "insertProduct") =>
      /\ products' = products
      /\ \E k \in 1..Len(errors'[r]) : errors'[r][k].item = idx[r]
C12_AllItemsReached ==
  \A r \in Reqs :
    (Done(r) /\ Len(parsedItems[r]) >= 1) =>
      /\ 0 \notin ItemsOf(errors[r])
      /\ \A i \in 1..Len(parsedItems[r]) : SuccessesFor(r, i) # {} \/ ErrorsFor(r, i) # {}

\* C13: every Entry row belongs to the authenticated user of the request that
\* created it.
C13_EntryOwner ==
  \A e \in entries : e.user_id = UserOf(entryOrigin[e.id][1])

\* An Entry row was created while request r was handled.
Created(r) == \E id \in 1..Len(entryOrigin) : entryOrigin[id][1] = r

\* C20: a request whose body passes validation is answered 201 exactly when an
\* entry was created for it and 500 otherwise; a request whose body does not
\* pass validation is answered 400 and never enters process.
C20_Status ==
  \A r \in Reqs :
    /\ (pc[r] = "answered" /\ Validates(body[r]))
         => status[r] = (IF Created(r) THEN 201 ELSE 500)
    /\ (body[r] # "none" /\ ~Validates(body[r]))
         => status[r] = 400 /\ pc[r] = "answered" /\ calls[r] = NoCalls

\* chatCompletion has resolved or thrown.
Finished == ccPc \in {"resolved", "rejected"}
\* The wire shape: an object with a non-empty choices array whose first
\* message has string content that is JSON, a string model and numeric usage.
WireShape(b) ==
  /\ b.root = "object" /\ b.choices = "one" /\ b.message = "present"
  /\ b.content \in {"matches", "mismatch"}
  /\ b.model = "string" /\ b.usage = "ok"
\* The upstream's answer reached the client whole (no transport failure, no timeout).
Delivered == result.cause \notin {"transport", "timeout", "body"}

\* C14: a call with a prompt and an output schema, to which the upstream
\* answers 2xx with a body of the wire shape whose content satisfies the
\* schema, returns that content with the model name and the token usage.
C14_Success ==
  (/\ Finished /\ Delivered
   /\ params.userMessage # "" /\ params.jsonSchema # "none"
   /\ Ok(upstream.status) /\ WireShape(upstream.body) /\ upstream.body.content = "matches")
    => /\ result.class = "ok"
       /\ result.content = "matches"
       /\ result.model = "string" /\ result.usage = "ok"

\* C15: when the body of a 2xx answer has been read, chatCompletion succeeds
\* only if the body has the wire shape and its content satisfies the output
\* schema (when one was given); otherwise it throws ResponseParsingError.
C15_RejectsBadShape ==
  (Finished /\ Delivered /\ result.cause # "input" /\ Ok(upstream.status)) =>
    IF /\ WireShape(upstream.body)
       /\ params.jsonSchema # "none" => upstream.body.content = "matches"
    THEN TRUE
    ELSE result.class = "ResponseParsingError"

\* C16: an HTTP error status is thrown as the class of its kind (401
\* ApiAuthenticationError, 400 ApiBadRequestError, 429 ApiRateLimitError,
\* 500..599 ApiServerError, any other status none of these), and a transport
\* error or a timeout as NetworkError.
C16_ErrorClasses ==
  Finished =>
    /\ result.cause \in {"transport", "timeout"} => result.class = "NetworkError"
    /\ result.cause = "http" =>
         result.class =
           CASE upstream.status = 401 -> "ApiAuthenticationError"
             [] upstream.status = 400 -> "ApiBadRequestError"
             [] upstream.status = 429 -> "ApiRateLimitError"
             [] upstream.status \in 500..599 -> "ApiServerError"
             [] OTHER -> "ApiError"

\* C17: every call that went out completes, whatever the upstream does.
C17_Completes == (ccPc \in {"fetch", "json", "errorJson"}) ~> Finished

\* C18: an invocation never has more than one outbound request, and one with
\* a non-empty prompt has issued exactly one when it ends.
C18_OneRequest ==
  /\ requests <= 1
  /\ (Finished /\ params.userMessage # "") => requests = 1

\* C19: without the credential no service gets constructed, and no
\* chatCompletion call is ever running.
C19_FailFast ==
  apiKey = "missing" => service # "ready" /\ ccPc = "idle"

\* Request r is resolving a product (batch lookup or per-name fallback).
Resolving(r) == pc[r] \in {"batch", "fetch", "nutrition", "insertProduct"}
\* Items of request r that have an Entry row.
WrittenItems(r) == { entryOrigin[id][2] : id \in { k \in 1..Len(entryOrigin) : entryOrigin[k][1] = r } }

\* C24 (as claimed): while a request resolves any product, none of its Entry
\* rows has been written yet.
C24_ResolveAllThenWrite ==
  \A r \in Reqs : Resolving(r) => ~Created(r)

\* C24 (amended): the steps of a request are strictly sequential: nothing is
\* written before the batch lookup has finished, the items are handled one at
\* a time in parsed order (while item i is resolved or written only earlier
\* items have Entry rows), and an item's Entry row is written only after its
\* own product resolution has produced a stored row.
C24_Sequential ==
  \A r \in Reqs :
    /\ pc[r] \in {"parse", "batch"} => ~Created(r)
    /\ pc[r] \in {"fetch", "nutrition", "insertProduct", "insertEntry"}
         => \A i \in WrittenItems(r) : i < idx[r]
    /\ pc[r] = "insertEntry" => product[r] \in products
\* The second item's fallback resolution runs after the first item was written.
C24_Witness ==
  \E r \in Reqs : pc[r] = "nutrition" /\ idx[r] = 2 /\ EntriesFor(r, 1) # {}

\* Names of the parsed items of request r.
ParsedNames(r) == { Normalize(parsedItems[r][k].name) : k \in 1..Len(parsedItems[r]) }
\* Request r is inside process.
Running(r) == pc[r] \notin {"idle", "answered", "returned"}

\* C25: a running request has called the parser exactly once and the batch
\* lookup at most once, exactly once when items were parsed; the batch lookup
\* returns the row of every parsed name that has one; an LLM call (parser or
\* nutrition) is issued only while no LLM call of the request is in flight.
C25_State ==
  \A r \in Reqs : Running(r) =>
    /\ calls[r].parse = 1
    /\ calls[r].batch = (IF parsedItems[r] # <<>> THEN 1 ELSE 0)
    /\ pc[r] = "parse" => calls[r].llm = 0
C25_Step ==
  \A r \in Reqs :
    /\ (calls'[r].parse > calls[r].parse \/ calls'[r].llm > calls[r].llm)
         => /\ pc[r] \notin {"parse", "nutrition"}
            /\ calls'[r].parse + calls'[r].llm = calls[r].parse + calls[r].llm + 1
    /\ (pc[r] = "batch" /\ pc'[r] # "batch" /\ faults' = faults)
         => DOMAIN existingProducts'[r] = { n \in ParsedNames(r) : HasProduct(n) }
C25_CallCounts == []C25_State /\ [][C25_Step]_vars
\* Two nutrition LLM calls, one after the other, after one batch lookup that
\* found the row of another item.
C25_Witness ==
  \E r \in Reqs :
    /\ Done(r) /\ calls[r].llm = 2 /\ calls[r].batch = 1 /\ calls[r].parse = 1
    /\ DOMAIN existingProducts[r] = {"chicken"} /\ Len(parsedItems[r]) = 3

\* C26: no step removes or changes a Product row or an Entry row.
C26_AppendOnly == [][products \subseteq products' /\ entries \subseteq entries']_vars
\* A product insert lost the race for its name, and rows of both tables exist.
C26_Witness ==
  /\ \E r \in Reqs : \E k \in 1..Len(errors[r]) :
       errors[r][k].message = <<"Failed to create entry: ", "Failed to create product: ",
                                 "unique_violation">>
  /\ Cardinality(products) = 2
  /\ entries # {}

\* C27: the text process works on is the trimmed form of the submitted text,
\* and has between 1 and 1000 characters.
C27_TrimmedText ==
  \A r \in Reqs : Running(r) =>
    /\ text[r] = ValidatedText(r)
    /\ Length(text[r]) >= 1 /\ Length(text[r]) <= MaxTextLength

\* C30: once the loop of a sequentially run request is done, an item with
\* quantity <= 0 for which no call failed has the row of its name in the
\* table, has the quantity error and has no Entry row; when such an item is the
\* only item and its name was not found by the batch lookup, the request made
\* exactly one nutrition LLM call and one product insert and no entry insert.
C30_ResolveBeforeValidate ==
  \A r \in Reqs : (Done(r) /\ LoopRan(r)) =>
    /\ \A i \in 1..Len(parsedItems[r]) :
         (parsedItems[r][i].quantity <= 0 /\ \A f \in FaultsOf(r) : f.item # i) =>
           /\ HasProduct(parsedItems[r][i].name)
           /\ EntriesFor(r, i) = {}
           /\ \E k \in ErrorsFor(r, i) : errors[r][k].message = QuantityMessage
    /\ (/\ Len(parsedItems[r]) = 1 /\ parsedItems[r][1].quantity <= 0
        /\ parsedItems[r][1].name \notin DOMAIN existingProducts[r]
        /\ FaultsOf(r) = {})
         => calls[r] = [NoCalls EXCEPT !.parse = 1, !.batch = 1, !.select = 1, !.llm = 1,
                                       !.insertProduct = 1]
C30_Witness ==
  \E r \in Reqs :
    /\ Done(r) /\ Len(parsedItems[r]) = 1
    /\ parsedItems[r][1] = [name |-> "unknownproduct", quantity |-> 0]
    /\ calls[r].llm = 1 /\ calls[r].insertProduct = 1
    /\ Cardinality(products) = 2 /\ entries = {}
    /\ errors[r][1].message = QuantityMessage

NutritionFields == {"calories", "protein", "fat", "carbs"}
\* A call of the given service has just returned a value.
Returned(op) == out.op = op /\ out.kind = "return"
\* The stored goal of user u: Null when user_goals has no row for u.
StoredGoal(u) ==
  IF \E g \in goals : g.user_id = u
  THEN Some((CHOOSE g \in goals : g.user_id = u).daily_calorie_goal)
  ELSE Null

C22_Step ==
  /\ entries' # entries =>
       /\ api.op = "delete"
       /\ \E e \in entries :
            e.id = api.entryId /\ e.user_id = api.userId /\ entries' = entries \ {e}
  /\ (api.op = "delete" /\ out'.op = "delete" /\ out'.kind = "return") =>
       LET found == { e \in entries : e.id = api.entryId }
       IN IF found = {}
          THEN out'.value = [success |-> FALSE, reason |-> "not-found"] /\ entries' = entries
          ELSE IF \E e \in found : e.user_id # api.userId
          THEN out'.value = [success |-> FALSE, reason |-> "forbidden"] /\ entries' = entries
          ELSE out'.value.success /\ entries' = entries \ found
C22_OwnerOnlyDelete == [][C22_Step]_vars
\* u1 deleted one of its own rows; the other rows are still there.
C22_Witness ==
  /\ Returned("delete") /\ out.value.success /\ out.userId = "u1"
  /\ ~\E e \in entries : e.id = out.entryId
  /\ Cardinality(entries) = MaxEntries - 1
  /\ \E e \in entries : e.user_id = "u2"

\* The route handler of the HTTP request in flight has been entered.
HandlerRuns == api.op = "http" /\ api.pc # "getUser"

\* C23: on a path outside the public list the handler runs only after a user
\* was resolved from the session, and locals.user is that user; a request
\* without a session is answered with a redirect to "/" and its handler never
\* runs.
C23_State ==
  /\ (HandlerRuns /\ api.path \notin PUBLIC_PATHS)
       => api.session # "none" /\ locals.user = api.session
  /\ (out.op = "http" /\ out.kind \in {"handled", "response"} /\ out.path \notin PUBLIC_PATHS)
       => out.session # "none"
  /\ (out.op = "http" /\ out.kind = "handled" /\ out.path \notin PUBLIC_PATHS)
       => out.user = out.session
C23_Step ==
  (api.op = "http" /\ api.path \notin PUBLIC_PATHS /\ api.session = "none" /\ api' # api)
    => /\ api' = NoApi
       /\ out'.kind = "redirect" /\ out'.location = "/" /\ out'.path = api.path
C28_StoredGoal ==
  (out.op = "http" /\ out.kind = "response" /\ out.status = 200)
    => StoredGoal(out.session) = Some(out.goal)

\* C29: when getEntries returns, every element's nutrition is the product's
\* value times the factor getDailySummary uses for that entry, and with a
\* date filter the elements' values add up to the getDailySummary totals of
\* that user and date.
C29_SameFactor ==
  Returned("entries") =>
    LET data == out.value.data
        row(i) == CHOOSE e \in entries : e.id = data[i].entryId
    IN /\ \A i \in DOMAIN data : \A field \in NutritionFields :
            data[i].nutrition[field]
              = ProductOf(row(i))[field]
                  * Factor(ProductOf(row(i)).nutrition_basis, row(i).quantity)
       /\ out.date # "none" =>
            \A field \in NutritionFields :
              Sum([i \in DOMAIN data |-> data[i].nutrition[field]], DOMAIN data)
                = Totals({ e \in entries : e.user_id = out.userId
                                            /\ e.consumed_at = out.date })[field]

====
